---- MODULE Spec2Model ----
(***************************************************************************)
(* State-machine model of the OpenVST3 host runtime.                       *)
(*                                                                         *)
(*  - the AudioProcessor driver of crates/openvst3-host (over the C shim   *)
(*    generated by crates/openvst3-shim/build.rs)        : SpecAP          *)
(*  - the realtime-host-cli example (control thread + audio callback       *)
(*    thread, ProcessorRuntime, CallbackState32)         : SpecRT          *)
(*  - LoadedFactory: class listing, creation and the order in which the    *)
(*    factory and its processor are dropped              : SpecLF          *)
(*  - ProcessorRuntime under any sequence of its methods : SpecPR          *)
(*                                                                         *)
(* The plugin is the environment: every dispatch call returns a status the *)
(* model picks from TResults, and the capability object keeps a reference  *)
(* count as the FUnknown contract prescribes.                              *)
(***************************************************************************)
EXTENDS Integers, Sequences, FiniteSets, TLC

VARIABLES
    allOk,          \* environment: the plugin succeeds in every call
    obj,            \* the plugin's capability object [st, refs, uaf, destroys]
    \* --- a client of LoadedFactory / AudioProcessor (openvst3-host)
    buses,          \* environment: the plugin's audio buses [ins, outs] (channel counts)
    ap,             \* AudioProcessor [st, active]
    opName,         \* the last host operation performed
    opResult,       \* its result: "ok" or "err"
    opCalls,        \* the plugin calls it delivered, in order
    lastSetActive,  \* history: the most recent successful set_active ("none"/"on"/"off")
    drive,          \* history: progress through the canonical full drive, -1 when left
    driveOk,        \* history: every step of the drive so far returned success
    nOps,           \* number of host operations performed
    opArgs,         \* history: the arguments of the last host operation
    opOut,          \* history: the value it returned on success
    plugInits,      \* history: plugin initialize calls since creation (2: two or more)
    \* --- realtime-host-cli
    opts,           \* command line [component_iid, arrs]
    pc,             \* control thread: the next step of run()
    rt,             \* ProcessorRuntime [st, initialized, processing]
    stream,         \* the output stream: "none", "built", "playing", "dropped"
    cb,             \* audio thread: "idle", or "inflight" inside the plugin's process
    blocks,         \* number of callbacks delivered by the device
    trace,          \* history: every plugin call of the run, in delivery order
    runResult,      \* what run() returns: "running", "ok", "err"
    ptrs,           \* capability pointers obtained [created, comp]: "none"/"held"/"released"
    tearing,        \* history: run() has reached its shutdown sequence
    module,         \* the mapped library (Module / LoadedFactory): "none" / "loaded" / "unloaded"
    cbs             \* CallbackState32 of the stream callback, and what its last block built

sharedVars == <<allOk, obj>>
apVars == <<buses, ap, opName, opResult, opCalls, lastSetActive, drive, driveOk, nOps,
            opArgs, opOut, plugInits>>
rtVars == <<opts, pc, rt, stream, cb, blocks, trace, runResult, ptrs, tearing, module>>

vars == <<allOk, obj, buses, ap, opName, opResult, opCalls, lastSetActive, drive,
          driveOk, nOps, opArgs, opOut, plugInits, opts, pc, rt, stream, cb, blocks,
          trace, runResult, ptrs, tearing, module, cbs>>

(***************************************************************************)
(* Bounds                                                                  *)
(***************************************************************************)
MaxOps == 6
MaxFrames == 2
MaxBlocks == 2
MaxClasses == 3
MaxRtOps == 4

(***************************************************************************)
(* Status codes (openvst3-abi)                                             *)
(***************************************************************************)
K_RESULT_OK == 0
K_RESULT_FALSE == 1

\* Every check of a status in the host is `!= K_RESULT_OK` (`!= 0` behind the
\* shim): one non-success value stands for all of them.
TResults == {K_RESULT_OK, K_RESULT_FALSE}

\* What the plugin may answer to a dispatch call.  A call dispatched after the
\* library was unmapped runs whatever is at the address: any status (or a crash,
\* after which the process takes no further step).
PluginTr == IF allOk /\ module = "loaded" THEN {K_RESULT_OK} ELSE TResults
PluginBool == IF allOk /\ module = "loaded" THEN {TRUE} ELSE BOOLEAN

BUS_DIRECTION_INPUT == 0
BUS_DIRECTION_OUTPUT == 1

\* The shim's status mapping: `x == kResultOk ? 0 : -2`.
ShimRc(tr) == IF tr = K_RESULT_OK THEN 0 ELSE -2

\* One plugin call as the host delivered it: name, up to three arguments, status
\* seen by the host.
Call(c, x, y, z, rc) == [c |-> c, x |-> x, y |-> y, z |-> z, rc |-> rc]

(***************************************************************************)
(* The capability object (FUnknown contract)                               *)
(***************************************************************************)
NoObj == [st |-> "none", refs |-> 0, uaf |-> FALSE, destroys |-> 0]

\* createInstance hands the pointer back with its reference already held.
NewObj == [st |-> "live", refs |-> 1, uaf |-> FALSE, destroys |-> 0]

\* queryInterface success / addRef on a live object.
ObjAddRef(o) == [o EXCEPT !.refs = @ + 1]

\* release on a live object: the object destroys itself when the count drops to 0.
ReleaseLive(o) ==
    IF o.refs = 1
    THEN [o EXCEPT !.refs = 0, !.st = "destroyed", !.destroys = @ + 1]
    ELSE [o EXCEPT !.refs = @ - 1]

\* release dispatched through a pointer: on a destroyed object the call is a use
\* after free; a counting object goes below zero, a freed one keeps its count.
ReleaseOutcomes(o) ==
    IF o.st = "live"
    THEN {ReleaseLive(o)}
    ELSE {[o EXCEPT !.uaf = TRUE], [o EXCEPT !.uaf = TRUE, !.refs = @ - 1]}

RECURSIVE ReleaseN(_, _)
ReleaseN(o, n) == IF n = 0 THEN o ELSE ReleaseN(ReleaseLive(o), n - 1)

(***************************************************************************)
(* The C shim (crates/openvst3-shim/build.rs)                              *)
(***************************************************************************)
\* createInstance, then one FUnknownPtr (queryInterface, released when the
\* function returns) per interface; the raw pointers are handed out.
v3_factory_create_audio_processor_KeepUnk(r, qiProc, qiComp) ==
    IF r # K_RESULT_OK
    THEN [rc |-> -2, proc |-> FALSE, comp |-> FALSE, obj |-> NoObj]
    ELSE LET queried == (IF qiProc THEN 1 ELSE 0) + (IF qiComp THEN 1 ELSE 0)
             o == [NewObj EXCEPT !.refs = 1 + queried]
         IN IF ~qiProc \/ ~qiComp
            THEN [rc |-> -3, proc |-> FALSE, comp |-> FALSE, obj |-> ReleaseN(o, queried)]
            ELSE [rc |-> 0, proc |-> TRUE, comp |-> TRUE, obj |-> ReleaseN(o, queried)]

v3_factory_create_audio_processor(r, qiProc, qiComp) ==
    IF r # K_RESULT_OK
    THEN [rc |-> -2, proc |-> FALSE, comp |-> FALSE, obj |-> NoObj]
    ELSE LET queried == (IF qiProc THEN 1 ELSE 0) + (IF qiComp THEN 1 ELSE 0)
             o == [NewObj EXCEPT !.refs = 1 + queried]
         IN IF ~qiProc \/ ~qiComp
            THEN \* unk->release(), then the FUnknownPtr destructors
                 [rc |-> -3, proc |-> FALSE, comp |-> FALSE,
                  obj |-> ReleaseN(o, 1 + queried)]
            ELSE \* the two FUnknownPtr destructors; unk is never released
                 [rc |-> 0, proc |-> TRUE, comp |-> TRUE,
                  obj |-> ReleaseN(o, queried)]

(***************************************************************************)
(* AudioProcessor (crates/openvst3-host/src/lib.rs)                        *)
(***************************************************************************)
NoAp == [st |-> "none", active |-> FALSE]
\* No CallbackState32 constructed yet.
NoCb == [st |-> "none"]
\* No ProcessorRuntime constructed yet.
NoRt == [st |-> "none", initialized |-> FALSE, processing |-> FALSE]

create_audio_processor(shim) ==
    IF shim.rc # 0 \/ ~shim.proc \/ ~shim.comp
    THEN [result |-> "err", ap |-> NoAp]
    ELSE [result |-> "ok", ap |-> [st |-> "live", active |-> FALSE]]

AudioProcessor_initialize(rc) ==
    [result |-> IF rc # 0 THEN "err" ELSE "ok",
     calls |-> <<Call("initialize", 0, 0, 0, rc)>>]

AudioProcessor_set_active_SameOrder(active, on, rc_comp, rc_proc, rc_processing) ==
    LET v == IF on THEN 1 ELSE 0
        failed == rc_comp # 0 \/ rc_proc # 0 \/ rc_processing # 0
    IN [active |-> IF failed THEN active ELSE on,
        result |-> IF failed THEN "err" ELSE "ok",
        calls |-> << Call("comp.setActive", v, 0, 0, rc_comp),
                     Call("proc.setActive", v, 0, 0, rc_proc),
                     Call("setProcessing", v, 0, 0, rc_processing) >>]

AudioProcessor_set_active(active, on, rc_comp, rc_proc, rc_processing) ==
    LET calls == IF on
                 THEN << Call("comp.setActive", 1, 0, 0, rc_comp),
                         Call("proc.setActive", 1, 0, 0, rc_proc),
                         Call("setProcessing", 1, 0, 0, rc_processing) >>
                 ELSE << Call("setProcessing", 0, 0, 0, rc_processing),
                         Call("proc.setActive", 0, 0, 0, rc_proc),
                         Call("comp.setActive", 0, 0, 0, rc_comp) >>
        failed == rc_comp # 0 \/ rc_proc # 0 \/ rc_processing # 0
    IN [active |-> IF failed THEN active ELSE on,
        result |-> IF failed THEN "err" ELSE "ok",
        calls |-> calls]

\* Channel slices are modelled by their lengths.
AnyShort(lens, nframes) == \E i \in 1..Len(lens) : lens[i] < nframes

\* The pointer arrays process_f32 builds with collect(): a Vec collected from
\* an empty iterator holds no heap block, any other one is a fresh allocation.
PtrArrays(ins, outs) ==
    (IF Len(ins) > 0 THEN <<"in_ptrs">> ELSE <<>>)
    \o (IF Len(outs) > 0 THEN <<"out_ptrs">> ELSE <<>>)

process_f32_NoLengthCheck(active, ins, outs, nframes, tr) ==
    IF ~active
    THEN [active |-> active, result |-> "err", calls |-> <<>>, allocs |-> <<>>]
    ELSE [active |-> active,
          result |-> IF ShimRc(tr) # 0 THEN "err" ELSE "ok",
          allocs |-> PtrArrays(ins, outs),
          calls |-> <<Call("process", Len(ins), Len(outs), nframes, ShimRc(tr))>>]

process_f32_NoActiveCheck(active, ins, outs, nframes, tr) ==
    IF AnyShort(ins, nframes) \/ AnyShort(outs, nframes)
    THEN [active |-> active, result |-> "err", calls |-> <<>>, allocs |-> <<>>]
    ELSE [active |-> active,
          result |-> IF ShimRc(tr) # 0 THEN "err" ELSE "ok",
          allocs |-> PtrArrays(ins, outs),
          calls |-> <<Call("process", Len(ins), Len(outs), nframes, ShimRc(tr))>>]

process_f32_DeactivateOnError(active, ins, outs, nframes, tr) ==
    IF ~active \/ AnyShort(ins, nframes) \/ AnyShort(outs, nframes)
    THEN [active |-> active, result |-> "err", calls |-> <<>>, allocs |-> <<>>]
    ELSE [active |-> ShimRc(tr) = 0,
          allocs |-> PtrArrays(ins, outs),
          result |-> IF ShimRc(tr) # 0 THEN "err" ELSE "ok",
          calls |-> <<Call("process", Len(ins), Len(outs), nframes, ShimRc(tr))>>]

process_f32(active, ins, outs, nframes, tr) ==
    IF ~active
    THEN [active |-> active, result |-> "err", calls |-> <<>>, allocs |-> <<>>]
    ELSE IF AnyShort(ins, nframes)
    THEN [active |-> active, result |-> "err", calls |-> <<>>, allocs |-> <<>>]
    ELSE IF AnyShort(outs, nframes)
    THEN [active |-> active, result |-> "err", calls |-> <<>>, allocs |-> <<>>]
    ELSE LET rc == ShimRc(tr)
         IN [active |-> active,
             allocs |-> PtrArrays(ins, outs),
             result |-> IF rc # 0 THEN "err" ELSE "ok",
             calls |-> <<Call("process", Len(ins), Len(outs), nframes, rc)>>]

(***************************************************************************)
(* AudioProcessor::setup and its helpers                                   *)
(***************************************************************************)
\* v3_audio_processor_setup: setupProcessing, then (through a FUnknownPtr on
\* IComponent, released on return) setActive(true) with the status dropped.
v3_audio_processor_setup(max_block, trSetup, qiComp, trAct) ==
    IF trSetup # K_RESULT_OK
    THEN [rc |-> -2, calls |-> <<Call("setupProcessing", max_block, 0, 0, trSetup)>>]
    ELSE [rc |-> 0,
          calls |-> <<Call("setupProcessing", max_block, 0, 0, trSetup)>>
                    \o (IF qiComp
                        THEN <<Call("comp.setActive", 1, 0, 0, trAct)>>
                        ELSE <<>>)]

reapply_default_arrangements_AlwaysSet(b) ==
    << Call("busCount", BUS_DIRECTION_INPUT, 0, 0, Len(b.ins)),
       Call("busCount", BUS_DIRECTION_OUTPUT, 0, 0, Len(b.outs)),
       Call("getBusArrangements", Len(b.ins), Len(b.outs), 0, 0),
       Call("setBusArrangements", Len(b.ins), Len(b.outs), 0, 0) >>

\* get_bus_arrangements, then set_bus_arrangements unless both lists are empty:
\* the calls made when every one of them succeeds.
reapply_default_arrangements(b) ==
    << Call("busCount", BUS_DIRECTION_INPUT, 0, 0, Len(b.ins)),
       Call("busCount", BUS_DIRECTION_OUTPUT, 0, 0, Len(b.outs)),
       Call("getBusArrangements", Len(b.ins), Len(b.outs), 0, 0) >>
    \o (IF Len(b.ins) # 0 \/ Len(b.outs) # 0
        THEN <<Call("setBusArrangements", Len(b.ins), Len(b.outs), 0, 0)>>
        ELSE <<>>)

\* The inner loop of activate_default_audio_buses from bus idx on.
RECURSIVE ActivateFrom(_, _, _, _)
ActivateFrom(dir, chans, host_channels, idx) ==
    IF idx >= Len(chans)
    THEN <<>>
    ELSE LET should_activate == host_channels > 0 /\ chans[idx + 1] > 0
         IN << Call("busInfo", dir, idx, 0, 0),
               Call("activateBus", dir, idx, IF should_activate THEN 1 ELSE 0, 0) >>
            \o ActivateFrom(dir, chans, host_channels, idx + 1)

\* activate_default_audio_buses: the calls made when every one of them succeeds.
activate_default_audio_buses(b, in_ch, out_ch) ==
    <<Call("busCount", BUS_DIRECTION_INPUT, 0, 0, Len(b.ins))>>
    \o ActivateFrom(BUS_DIRECTION_INPUT, b.ins, in_ch, 0)
    \o <<Call("busCount", BUS_DIRECTION_OUTPUT, 0, 0, Len(b.outs))>>
    \o ActivateFrom(BUS_DIRECTION_OUTPUT, b.outs, out_ch, 0)

\* Every helper returns at its first failing call (`?`): the calls delivered when
\* the k-th planned call fails (k = 0: none fails).
FailAt(plan, k) ==
    IF k = 0
    THEN plan
    ELSE SubSeq(plan, 1, k - 1) \o <<[plan[k] EXCEPT !.rc = -2]>>

AudioProcessor_setup(b, max_block, in_ch, out_ch, trSetup, qiComp, trAct, k) ==
    LET shim == v3_audio_processor_setup(max_block, trSetup, qiComp, trAct)
        plan == reapply_default_arrangements(b)
                \o activate_default_audio_buses(b, in_ch, out_ch)
    IN IF shim.rc # 0
       THEN [result |-> "err", calls |-> shim.calls]
       ELSE [result |-> IF k = 0 THEN "ok" ELSE "err",
             calls |-> shim.calls \o FailAt(plan, IF k > Len(plan) THEN 0 ELSE k)]

SetupPlanLen(b, in_ch, out_ch) ==
    Len(reapply_default_arrangements(b) \o activate_default_audio_buses(b, in_ch, out_ch))

(***************************************************************************)
(* impl Drop for AudioProcessor                                            *)
(***************************************************************************)
AudioProcessor_drop(rc_processing, rc_proc, rc_comp, rc_term) ==
    << Call("setProcessing", 0, 0, 0, rc_processing),
       Call("proc.setActive", 0, 0, 0, rc_proc),
       Call("comp.setActive", 0, 0, 0, rc_comp),
       Call("terminate", 0, 0, 0, rc_term),
       Call("release", 0, 0, 0, 0),
       Call("release", 1, 0, 0, 0) >>

\* The object after the two v3_release calls of the drop.
DropReleases(o) == UNION { ReleaseOutcomes(o1) : o1 \in ReleaseOutcomes(o) }

(***************************************************************************)
(* Inputs                                                                  *)
(***************************************************************************)
SeqsUpTo(S, n) == UNION { [1..m -> S] : m \in 0..n }

ChannelCounts == {0, 2}

\* Audio bus layouts of the plugin: channel count of every input / output bus.
BusLayouts ==
    { [ins |-> <<>>, outs |-> <<>>],
      [ins |-> <<0>>, outs |-> <<2, 0>>],
      [ins |-> <<2, 2>>, outs |-> <<>>] }
SliceLens == SeqsUpTo(1..MaxFrames, 1)

\* The statuses the shim-side calls missing from build.rs hand to the host.
ShimRcs == { ShimRc(tr) : tr \in PluginTr }

Advance(step) == IF drive = step - 1 THEN step ELSE -1

(***************************************************************************)
(* SpecAP: a client of LoadedFactory / AudioProcessor                      *)
(***************************************************************************)
InitAP ==
    /\ allOk \in BOOLEAN
    /\ buses \in BusLayouts
    /\ obj = NoObj
    /\ ap = NoAp
    /\ opName = "none"
    /\ opResult = "ok"
    /\ opCalls = <<>>
    /\ lastSetActive = "none"
    /\ drive = 0
    /\ driveOk = TRUE
    /\ nOps = 0
    /\ opArgs = <<>>
    /\ opOut = <<>>
    /\ plugInits = 0
    /\ opts = [component_iid |-> FALSE, arrs |-> FALSE]
    /\ pc = "off"
    /\ rt = NoRt
    /\ stream = "none"
    /\ cb = "idle"
    /\ blocks = 0
    /\ trace = <<>>
    /\ runResult = "running"
    /\ ptrs = [created |-> "none", comp |-> "none"]
    /\ tearing = FALSE
    /\ module = "loaded"
    /\ cbs = NoCb

Create ==
    /\ ap.st = "none"
    /\ module = "loaded"
    /\ nOps < MaxOps
    /\ \E r \in PluginTr, qiProc \in PluginBool, qiComp \in PluginBool :
         LET shim == v3_factory_create_audio_processor(r, qiProc, qiComp)
             out == create_audio_processor(shim)
         IN /\ obj' = shim.obj
            /\ ap' = out.ap
            /\ opName' = "create"
            /\ opResult' = out.result
            /\ opCalls' = <<Call("createInstance", 0, 0, 0, r)>>
            /\ drive' = Advance(1)
            /\ driveOk' = (driveOk /\ out.result = "ok")
    /\ lastSetActive' = "none"
    /\ nOps' = nOps + 1
    /\ opArgs' = <<>>
    /\ opOut' = <<>>
    /\ plugInits' = 0
    /\ UNCHANGED <<allOk, buses>>
    /\ UNCHANGED rtVars
    /\ UNCHANGED cbs

Initialize ==
    /\ ap.st = "live"
    /\ nOps < MaxOps
    /\ \E tr \in PluginTr :
         LET out == AudioProcessor_initialize(ShimRc(tr))
         IN /\ opResult' = out.result
            /\ opCalls' = out.calls
            /\ driveOk' = (driveOk /\ out.result = "ok")
    /\ opName' = "initialize"
    /\ drive' = Advance(2)
    /\ nOps' = nOps + 1
    /\ opArgs' = <<>>
    /\ opOut' = <<>>
    /\ plugInits' = (IF plugInits < 2 THEN plugInits + 1 ELSE 2)
    /\ UNCHANGED <<allOk, buses, obj, ap, lastSetActive>>
    /\ UNCHANGED rtVars
    /\ UNCHANGED cbs

Setup ==
    /\ ap.st = "live"
    /\ nOps < MaxOps
    /\ \E in_ch \in ChannelCounts, out_ch \in ChannelCounts, trSetup \in PluginTr :
       \E qiComp \in (IF trSetup = K_RESULT_OK THEN PluginBool ELSE {TRUE}) :
       \E trAct \in (IF trSetup = K_RESULT_OK /\ qiComp THEN PluginTr ELSE {K_RESULT_OK}),
          k \in 0..(IF allOk \/ trSetup # K_RESULT_OK
                    THEN 0 ELSE SetupPlanLen(buses, in_ch, out_ch)) :
         LET out == AudioProcessor_setup(buses, MaxFrames, in_ch, out_ch,
                                         trSetup, qiComp, trAct, k)
         IN /\ opResult' = out.result
            /\ opCalls' = out.calls
            /\ opArgs' = <<in_ch, out_ch>>
            /\ driveOk' = (driveOk /\ out.result = "ok")
    /\ opName' = "setup"
    /\ drive' = Advance(3)
    /\ nOps' = nOps + 1
    /\ opOut' = <<>>
    /\ UNCHANGED <<allOk, buses, obj, ap, lastSetActive, plugInits>>
    /\ UNCHANGED rtVars
    /\ UNCHANGED cbs

SetActive ==
    /\ ap.st = "live"
    /\ nOps < MaxOps
    /\ \E on \in BOOLEAN, rc_comp \in ShimRcs, rc_proc \in ShimRcs, rc_processing \in ShimRcs :
         LET out == AudioProcessor_set_active(ap.active, on, rc_comp, rc_proc, rc_processing)
         IN /\ ap' = [ap EXCEPT !.active = out.active]
            /\ opName' = IF on THEN "set_active(true)" ELSE "set_active(false)"
            /\ opResult' = out.result
            /\ opCalls' = out.calls
            /\ lastSetActive' = IF out.result = "ok"
                                THEN (IF on THEN "on" ELSE "off")
                                ELSE lastSetActive
            /\ drive' = Advance(IF on THEN 4 ELSE 6)
            /\ driveOk' = (driveOk /\ out.result = "ok")
    /\ nOps' = nOps + 1
    /\ opArgs' = <<>>
    /\ opOut' = <<>>
    /\ UNCHANGED <<allOk, buses, obj, plugInits>>
    /\ UNCHANGED rtVars
    /\ UNCHANGED cbs

ProcessF32 ==
    /\ ap.st = "live"
    /\ nOps < MaxOps
    /\ \E ins \in SliceLens, outs \in SliceLens, nframes \in 1..(MaxFrames + 1) :
       \E tr \in (IF ap.active /\ ~AnyShort(ins, nframes) /\ ~AnyShort(outs, nframes)
                  THEN PluginTr ELSE {K_RESULT_OK}) :
         LET out == process_f32(ap.active, ins, outs, nframes, tr)
         IN /\ ap' = [ap EXCEPT !.active = out.active]
            /\ opResult' = out.result
            /\ opCalls' = out.calls
            /\ opOut' = out.allocs
            /\ opArgs' = <<ins, outs, nframes, ap.active>>
            /\ driveOk' = (driveOk /\ out.result = "ok")
    /\ opName' = "process_f32"
    /\ drive' = Advance(5)
    /\ nOps' = nOps + 1
    /\ UNCHANGED <<allOk, buses, obj, lastSetActive, plugInits>>
    /\ UNCHANGED rtVars
    /\ UNCHANGED cbs

Drop ==
    /\ ap.st = "live"
    /\ \E rc_processing \in ShimRcs, rc_proc \in ShimRcs, rc_comp \in ShimRcs,
          rc_term \in ShimRcs, o \in DropReleases(obj) :
         /\ opCalls' = AudioProcessor_drop(rc_processing, rc_proc, rc_comp, rc_term)
         /\ obj' = o
    /\ ap' = [ap EXCEPT !.st = "dropped"]
    /\ opName' = "drop"
    /\ opResult' = "ok"
    /\ drive' = Advance(7)
    /\ nOps' = nOps + 1
    /\ opArgs' = <<>>
    /\ opOut' = <<>>
    /\ UNCHANGED <<allOk, buses, lastSetActive, driveOk, plugInits>>
    /\ UNCHANGED rtVars
    /\ UNCHANGED cbs

NextAP == Create \/ Initialize \/ Setup \/ SetActive \/ ProcessF32 \/ Drop

SpecAP == InitAP /\ [][NextAP]_vars

(***************************************************************************)
(* SpecLF: a client of LoadedFactory that lists the classes, creates a     *)
(* processor and drops the two values in any order                         *)
(***************************************************************************)
\* The loop of LoadedFactory::classes from index i on: classes read so far are
\* kept, a failing index is skipped.
RECURSIVE ClassesFrom(_, _, _)
ClassesFrom_StopAtError(n, trs, i) ==
    IF i >= n
    THEN [calls |-> <<>>, out |-> <<>>]
    ELSE IF ShimRc(trs[i + 1]) # 0
    THEN [calls |-> <<Call("classInfo", i, 0, 0, ShimRc(trs[i + 1]))>>, out |-> <<>>]
    ELSE [calls |-> <<Call("classInfo", i, 0, 0, 0)>> \o ClassesFrom(n, trs, i + 1).calls,
          out |-> <<[index |-> i]>> \o ClassesFrom(n, trs, i + 1).out]

ClassesFrom(n, trs, i) ==
    IF i >= n
    THEN [calls |-> <<>>, out |-> <<>>]
    ELSE LET rc == ShimRc(trs[i + 1])
             rest == ClassesFrom(n, trs, i + 1)
         IN [calls |-> <<Call("classInfo", i, 0, 0, rc)>> \o rest.calls,
             out |-> (IF rc = 0 THEN <<[index |-> i]>> ELSE <<>>) \o rest.out]

LoadedFactory_classes_NegativeAsEmpty(n, trs) ==
    [result |-> "ok",
     out |-> ClassesFrom(n, trs, 0).out,
     calls |-> <<Call("classCount", 0, 0, 0, n)>> \o ClassesFrom(n, trs, 0).calls]

\* LoadedFactory::classes: n is what v3_factory_class_count returned, trs the
\* status of getClassInfo at every index.
LoadedFactory_classes(n, trs) ==
    IF n < 0
    THEN [result |-> "err", out |-> <<>>, calls |-> <<Call("classCount", 0, 0, 0, n)>>]
    ELSE [result |-> "ok",
          out |-> ClassesFrom(n, trs, 0).out,
          calls |-> <<Call("classCount", 0, 0, 0, n)>> \o ClassesFrom(n, trs, 0).calls]

\* Vst3Lib::load: map the library, then resolve GetPluginFactory; on a missing
\* symbol the Library just opened is dropped again.
Vst3Lib_load(openOk, symOk) ==
    IF ~openOk
    THEN [result |-> "err", mapped |-> FALSE]
    ELSE IF ~symOk
    THEN [result |-> "err", mapped |-> FALSE]
    ELSE [result |-> "ok", mapped |-> TRUE]

LoadedFactory_load_plugin_NoNullCheck(openOk, symOk, nonNull) ==
    IF Vst3Lib_load(openOk, symOk).result # "ok"
    THEN [result |-> "err", module |-> "none", calls |-> <<>>]
    ELSE [result |-> "ok", module |-> "loaded",
          calls |-> <<Call("GetPluginFactory", 0, 0, 0, IF nonNull THEN 1 ELSE 0)>>]

\* LoadedFactory::load_plugin: the entry point is called once (rc: 1 for a
\* non-null factory pointer, 0 for null); on the null path the Vst3Lib is
\* dropped, which unmaps the library.
LoadedFactory_load_plugin(openOk, symOk, nonNull) ==
    IF Vst3Lib_load(openOk, symOk).result # "ok"
    THEN [result |-> "err", module |-> "none", calls |-> <<>>]
    ELSE IF ~nonNull
    THEN [result |-> "err", module |-> "none",
          calls |-> <<Call("GetPluginFactory", 0, 0, 0, 0)>>]
    ELSE [result |-> "ok", module |-> "loaded",
          calls |-> <<Call("GetPluginFactory", 0, 0, 0, 1)>>]

\* What the factory may report as its class count.
ClassCounts == IF allOk THEN 0..MaxClasses ELSE -1..MaxClasses

InitLF ==
    /\ allOk \in BOOLEAN
    /\ buses = [ins |-> <<>>, outs |-> <<>>]
    /\ obj = NoObj
    /\ ap = NoAp
    /\ opName = "none"
    /\ opResult = "ok"
    /\ opCalls = <<>>
    /\ lastSetActive = "none"
    /\ drive = 0
    /\ driveOk = TRUE
    /\ nOps = 0
    /\ opArgs = <<>>
    /\ opOut = <<>>
    /\ plugInits = 0
    /\ opts = [component_iid |-> FALSE, arrs |-> FALSE]
    /\ pc = "off"
    /\ rt = NoRt
    /\ stream = "none"
    /\ cb = "idle"
    /\ blocks = 0
    /\ trace = <<>>
    /\ runResult = "running"
    /\ ptrs = [created |-> "none", comp |-> "none"]
    /\ tearing = FALSE
    /\ module = "none"
    /\ cbs = NoCb

\* The caller loads the plugin; a failed load may be tried again.
Load ==
    /\ module = "none"
    /\ \E openOk \in (IF allOk THEN {TRUE} ELSE BOOLEAN) :
       \E symOk \in (IF allOk \/ ~openOk THEN {TRUE} ELSE BOOLEAN) :
       \E nonNull \in (IF allOk \/ ~openOk \/ ~symOk THEN {TRUE} ELSE BOOLEAN) :
         LET out == LoadedFactory_load_plugin(openOk, symOk, nonNull)
         IN /\ module' = out.module
            /\ opResult' = out.result
            /\ opCalls' = out.calls
            /\ opArgs' = <<openOk, symOk, nonNull>>
    /\ opName' = "load"
    /\ opOut' = <<>>
    /\ drive' = -1
    /\ UNCHANGED <<allOk, obj, buses, ap, lastSetActive, driveOk, nOps, plugInits>>
    /\ UNCHANGED <<opts, pc, rt, stream, cb, blocks, trace, runResult, ptrs, tearing, cbs>>

Classes ==
    /\ module = "loaded"
    /\ nOps < MaxOps
    /\ \E n \in ClassCounts :
       \E trs \in [1..(IF n < 0 THEN 0 ELSE n) -> PluginTr] :
         LET out == LoadedFactory_classes(n, trs)
         IN /\ opResult' = out.result
            /\ opCalls' = out.calls
            /\ opOut' = out.out
    /\ opName' = "classes"
    /\ opArgs' = <<>>
    /\ drive' = -1
    /\ nOps' = nOps + 1
    /\ UNCHANGED <<allOk, obj, buses, ap, lastSetActive, driveOk, plugInits>>
    /\ UNCHANGED rtVars
    /\ UNCHANGED cbs

LoadedFactory_drop_ReleaseFactory ==
    [module |-> "unloaded", calls |-> <<Call("factory.release", 0, 0, 0, 0)>>]

\* Dropping a LoadedFactory: no Drop impl of its own; the fields are dropped, the
\* Library of Vst3Lib unmaps the binary, the raw factory pointer is forgotten.
LoadedFactory_drop ==
    [module |-> "unloaded", calls |-> <<>>]

\* The caller drops the LoadedFactory; an AudioProcessor borrows nothing from it
\* and may live on.
DropFactory ==
    /\ module = "loaded"
    /\ module' = LoadedFactory_drop.module
    /\ opName' = "drop_factory"
    /\ opResult' = "ok"
    /\ opCalls' = LoadedFactory_drop.calls
    /\ opArgs' = <<>>
    /\ opOut' = <<>>
    /\ drive' = -1
    /\ UNCHANGED <<allOk, obj, buses, ap, lastSetActive, driveOk, nOps, plugInits>>
    /\ UNCHANGED <<opts, pc, rt, stream, cb, blocks, trace, runResult, ptrs, tearing, cbs>>

NextLF == Load \/ Classes \/ Create \/ Initialize \/ Drop \/ DropFactory

SpecLF == InitLF /\ [][NextLF]_vars

(***************************************************************************)
(* ProcessorRuntime (examples/realtime-host-cli/src/main.rs)               *)
(***************************************************************************)
\* The #[repr(C)] dispatch tables of the abi crate: the entries in field order.
FUnknownVTable ==
    <<"query_interface", "add_ref", "release">>

IPluginFactoryVTable ==
    <<"query_interface", "add_ref", "release",
      "get_factory_info", "count_classes", "get_class_info", "create_instance">>

IPluginBaseVTable ==
    <<"query_interface", "add_ref", "release", "initialize", "terminate">>

IComponentVTable ==
    <<"query_interface", "add_ref", "release", "initialize", "terminate",
      "get_controller_class_id">>

IAudioProcessorVTable_NoPluginBase ==
    <<"query_interface", "add_ref", "release",
      "set_processing", "setup_processing", "process_32f">>

IAudioProcessorVTable ==
    <<"query_interface", "add_ref", "release", "initialize", "terminate",
      "set_processing", "setup_processing", "process_32f">>

\* The slot a method call through a table of this layout lands on.
SlotOf(vtbl, entry) == CHOOSE i \in 1..Len(vtbl) : vtbl[i] = entry

ProcessorRuntime_new == [st |-> "live", initialized |-> FALSE, processing |-> FALSE]

ProcessorRuntime_initialize_NoGuard(r, tr) ==
    IF tr # K_RESULT_OK
    THEN [rt |-> r, result |-> "err", calls |-> <<Call("initialize", 0, 0, 0, tr)>>]
    ELSE [rt |-> [r EXCEPT !.initialized = TRUE], result |-> "ok",
          calls |-> <<Call("initialize", 0, 0, 0, tr)>>]

ProcessorRuntime_initialize(r, tr) ==
    IF r.initialized
    THEN [rt |-> r, result |-> "ok", calls |-> <<>>]
    ELSE IF tr # K_RESULT_OK
    THEN [rt |-> r, result |-> "err", calls |-> <<Call("initialize", 0, 0, 0, tr)>>]
    ELSE [rt |-> [r EXCEPT !.initialized = TRUE], result |-> "ok",
          calls |-> <<Call("initialize", 0, 0, 0, tr)>>]

ProcessorRuntime_setup_processing(r, max_block, tr) ==
    [rt |-> r,
     result |-> IF tr # K_RESULT_OK THEN "err" ELSE "ok",
     calls |-> <<Call("setupProcessing", max_block, 0, 0, tr)>>]

ProcessorRuntime_set_processing(r, active, tr) ==
    IF tr # K_RESULT_OK
    THEN [rt |-> r, result |-> "err",
          calls |-> <<Call("setProcessing", IF active THEN 1 ELSE 0, 0, 0, tr)>>]
    ELSE [rt |-> [r EXCEPT !.processing = active], result |-> "ok",
          calls |-> <<Call("setProcessing", IF active THEN 1 ELSE 0, 0, 0, tr)>>]

ProcessorRuntime_terminate(r, tr) ==
    IF r.initialized
    THEN IF tr # K_RESULT_OK
         THEN [rt |-> r, result |-> "err", calls |-> <<Call("terminate", 0, 0, 0, tr)>>]
         ELSE [rt |-> [r EXCEPT !.initialized = FALSE], result |-> "ok",
               calls |-> <<Call("terminate", 0, 0, 0, tr)>>]
    ELSE [rt |-> r, result |-> "ok", calls |-> <<>>]

\* impl Drop for ProcessorRuntime: the pointer is never null once constructed.
ProcessorRuntime_drop(r, trProc, trTerm) ==
    [rt |-> [st |-> "dropped", initialized |-> FALSE, processing |-> FALSE],
     calls |-> (IF r.processing THEN <<Call("setProcessing", 0, 0, 0, trProc)>> ELSE <<>>)
               \o (IF r.initialized THEN <<Call("terminate", 0, 0, 0, trTerm)>> ELSE <<>>)
               \o <<Call("release", 0, 0, 0, 0)>>]

\* CallbackState32::process up to the dispatch: a block of `frames` frames.
CallbackState32_process(channels, max_frames, frames) ==
    IF frames > max_frames
    THEN [result |-> "err", calls |-> <<>>]
    ELSE [result |-> "ok", calls |-> <<Call("process", 0, channels, frames, 0)>>]

(***************************************************************************)
(* SpecPR: ProcessorRuntime driven by any sequence of its methods          *)
(***************************************************************************)
InitPR ==
    /\ allOk \in BOOLEAN
    /\ buses = [ins |-> <<>>, outs |-> <<>>]
    /\ obj = NewObj
    /\ ap = NoAp
    /\ opName = "none"
    /\ opResult = "ok"
    /\ opCalls = <<>>
    /\ lastSetActive = "none"
    /\ drive = 0
    /\ driveOk = TRUE
    /\ nOps = 0
    /\ opArgs = <<>>
    /\ opOut = <<>>
    /\ plugInits = 0
    /\ opts = [component_iid |-> FALSE, arrs |-> FALSE]
    /\ pc = "off"
    /\ rt = ProcessorRuntime_new
    /\ stream = "none"
    /\ cb = "idle"
    /\ blocks = 0
    /\ trace = <<>>
    /\ runResult = "running"
    /\ ptrs = [created |-> "held", comp |-> "none"]
    /\ tearing = FALSE
    /\ module = "loaded"
    /\ cbs = NoCb

\* What a method call leaves unchanged.
PrFrame ==
    /\ nOps' = nOps + 1
    /\ UNCHANGED <<allOk, buses, ap, lastSetActive, drive, driveOk, opArgs, opOut, plugInits>>
    /\ UNCHANGED <<opts, pc, stream, cb, blocks, runResult, tearing, module, cbs>>

PrInitialize ==
    /\ rt.st = "live"
    /\ nOps < MaxRtOps
    /\ \E tr \in (IF rt.initialized THEN {K_RESULT_OK} ELSE PluginTr) :
         LET out == ProcessorRuntime_initialize(rt, tr)
         IN /\ rt' = out.rt
            /\ opResult' = out.result
            /\ opCalls' = out.calls
            /\ trace' = trace \o out.calls
    /\ opName' = "initialize"
    /\ PrFrame
    /\ UNCHANGED <<obj, ptrs>>

PrSetupProcessing ==
    /\ rt.st = "live"
    /\ nOps < MaxRtOps
    /\ \E tr \in PluginTr :
         LET out == ProcessorRuntime_setup_processing(rt, MaxFrames, tr)
         IN /\ rt' = out.rt
            /\ opResult' = out.result
            /\ opCalls' = out.calls
            /\ trace' = trace \o out.calls
    /\ opName' = "setup_processing"
    /\ PrFrame
    /\ UNCHANGED <<obj, ptrs>>

PrSetProcessing ==
    /\ rt.st = "live"
    /\ nOps < MaxRtOps
    /\ \E active \in BOOLEAN, tr \in PluginTr :
         LET out == ProcessorRuntime_set_processing(rt, active, tr)
         IN /\ rt' = out.rt
            /\ opResult' = out.result
            /\ opCalls' = out.calls
            /\ trace' = trace \o out.calls
    /\ opName' = "set_processing"
    /\ PrFrame
    /\ UNCHANGED <<obj, ptrs>>

PrTerminate ==
    /\ rt.st = "live"
    /\ nOps < MaxRtOps
    /\ \E tr \in (IF rt.initialized THEN PluginTr ELSE {K_RESULT_OK}) :
         LET out == ProcessorRuntime_terminate(rt, tr)
         IN /\ rt' = out.rt
            /\ opResult' = out.result
            /\ opCalls' = out.calls
            /\ trace' = trace \o out.calls
    /\ opName' = "terminate"
    /\ PrFrame
    /\ UNCHANGED <<obj, ptrs>>

PrDrop ==
    /\ rt.st = "live"
    /\ \E trProc \in (IF rt.processing THEN PluginTr ELSE {K_RESULT_OK}),
          trTerm \in (IF rt.initialized THEN PluginTr ELSE {K_RESULT_OK}),
          o \in ReleaseOutcomes(obj) :
         LET out == ProcessorRuntime_drop(rt, trProc, trTerm)
         IN /\ rt' = out.rt
            /\ opCalls' = out.calls
            /\ trace' = trace \o out.calls
            /\ obj' = o
    /\ opName' = "drop"
    /\ opResult' = "ok"
    /\ ptrs' = [ptrs EXCEPT !.created = "released"]
    /\ PrFrame

NextPR == PrInitialize \/ PrSetupProcessing \/ PrSetProcessing \/ PrTerminate \/ PrDrop

SpecPR == InitPR /\ [][NextPR]_vars

(***************************************************************************)
(* run() of realtime-host-cli: the control thread                          *)
(***************************************************************************)
\* Channels of the output stream the device opened.
DeviceChannels == 2

\* Frames per block the device may deliver: below, at and above --frames.
BlockFrames == {1, MaxFrames, MaxFrames + 1}

\* `?` / `return Err(..)`: leave run(), dropping the locals.
ReturnErr ==
    /\ pc' = "unwind"
    /\ runResult' = "err"

AfterTeardownCall_Propagate(result, next) ==
    IF result = "err"
    THEN [pc |-> "unwind", runResult |-> "err"]
    ELSE [pc |-> next, runResult |-> "running"]

\* What run() does with the result of a teardown call: log it and go on.
AfterTeardownCall(result, next) == [pc |-> next, runResult |-> "running"]

InitRT ==
    /\ allOk \in BOOLEAN
    /\ obj = NoObj
    /\ buses = [ins |-> <<>>, outs |-> <<>>]
    /\ ap = NoAp
    /\ opName = "none"
    /\ opResult = "ok"
    /\ opCalls = <<>>
    /\ lastSetActive = "none"
    /\ drive = 0
    /\ driveOk = TRUE
    /\ nOps = 0
    /\ opArgs = <<>>
    /\ opOut = <<>>
    /\ plugInits = 0
    /\ opts \in [component_iid : BOOLEAN, arrs : BOOLEAN]
    /\ pc = "create"
    /\ rt = NoRt
    /\ stream = "none"
    /\ cb = "idle"
    /\ blocks = 0
    /\ trace = <<>>
    /\ runResult = "running"
    /\ ptrs = [created |-> "none", comp |-> "none"]
    /\ tearing = FALSE
    /\ module = "loaded"
    /\ cbs = NoCb

\* host::create_instance_raw: the factory's createInstance; on success the
\* pointer comes back with its reference already held.
create_instance_raw(r) ==
    IF r = K_RESULT_OK
    THEN [result |-> "ok", obj |-> NewObj]
    ELSE [result |-> "err", obj |-> NoObj]

\* host::query_interface: one more capability pointer on the same object, with
\* one more reference held; the object is untouched on failure.
query_interface(o, qi) ==
    IF qi = K_RESULT_OK
    THEN [result |-> "ok", obj |-> ObjAddRef(o)]
    ELSE [result |-> "err", obj |-> o]

\* host::create_instance_raw, then the null checks.
RtCreate ==
    /\ pc = "create"
    /\ \E r \in PluginTr, isNull \in (IF allOk THEN {FALSE} ELSE BOOLEAN) :
         /\ trace' = Append(trace, Call("createInstance", 0, 0, 0, r))
         /\ IF create_instance_raw(r).result = "ok" /\ ~isNull
            THEN /\ obj' = create_instance_raw(r).obj
                 /\ ptrs' = [ptrs EXCEPT !.created = "held"]
                 /\ pc' = IF opts.component_iid THEN "query" ELSE "env"
                 /\ UNCHANGED runResult
            ELSE /\ ReturnErr
                 /\ UNCHANGED <<obj, ptrs>>
    /\ UNCHANGED <<allOk, opts, rt, stream, cb, blocks, module, tearing>>
    /\ UNCHANGED apVars
    /\ UNCHANGED cbs

\* --component-iid: parse the id, host::query_interface, detect_output_channels.
RtQueryComponent ==
    /\ pc = "query"
    /\ \E hexOk \in BOOLEAN, qi \in PluginTr :
         IF ~hexOk
         THEN /\ ReturnErr
              /\ UNCHANGED <<obj, ptrs, trace>>
         ELSE /\ trace' = Append(trace, Call("queryInterface", 0, 0, 0, qi))
              /\ obj' = query_interface(obj, qi).obj
              /\ ptrs' = IF query_interface(obj, qi).result = "ok"
                         THEN [ptrs EXCEPT !.comp = "held"]
                         ELSE ptrs
              /\ pc' = "env"
              /\ UNCHANGED runResult
    /\ UNCHANGED <<allOk, opts, rt, stream, cb, blocks, module, tearing>>
    /\ UNCHANGED apVars
    /\ UNCHANGED cbs

\* Arrangement lists, output device, stream configuration, --frames.
RtEnvironment ==
    /\ pc = "env"
    /\ \E ok \in BOOLEAN :
         IF ok
         THEN pc' = "init" /\ UNCHANGED runResult
         ELSE ReturnErr
    /\ UNCHANGED <<allOk, obj, opts, rt, stream, cb, blocks, trace, ptrs, module, tearing>>
    /\ UNCHANGED apVars
    /\ UNCHANGED cbs

RtInitialize ==
    /\ pc = "init"
    /\ \E tr \in PluginTr :
         LET out == ProcessorRuntime_initialize(ProcessorRuntime_new, tr)
         IN /\ rt' = out.rt
            /\ trace' = trace \o out.calls
            /\ IF out.result = "ok"
               THEN pc' = (IF opts.arrs THEN "arrs" ELSE "setup") /\ UNCHANGED runResult
               ELSE ReturnErr
    /\ UNCHANGED <<allOk, obj, opts, stream, cb, blocks, ptrs, module, tearing>>
    /\ UNCHANGED apVars
    /\ UNCHANGED cbs

\* host::set_bus_arrangements with the lists of the command line.
RtSetBusArrangements ==
    /\ pc = "arrs"
    /\ \E tr \in PluginTr :
         /\ trace' = Append(trace, Call("setBusArrangements", 0, 0, 0, tr))
         /\ IF tr = K_RESULT_OK
            THEN pc' = "setup" /\ UNCHANGED runResult
            ELSE ReturnErr
    /\ UNCHANGED <<allOk, obj, opts, rt, stream, cb, blocks, ptrs, module, tearing>>
    /\ UNCHANGED apVars
    /\ UNCHANGED cbs

RtSetupProcessing ==
    /\ pc = "setup"
    /\ \E tr \in PluginTr :
         LET out == ProcessorRuntime_setup_processing(rt, MaxFrames, tr)
         IN /\ rt' = out.rt
            /\ trace' = trace \o out.calls
            /\ IF out.result = "ok"
               THEN pc' = "build" /\ UNCHANGED runResult
               ELSE ReturnErr
    /\ UNCHANGED <<allOk, obj, opts, stream, cb, blocks, ptrs, module, tearing>>
    /\ UNCHANGED apVars
    /\ UNCHANGED cbs

\* CallbackState32::new and device.build_output_stream.
RtBuildStream ==
    /\ pc = "build"
    /\ \E ok \in BOOLEAN :
         IF ok
         THEN stream' = "built" /\ pc' = "procOn" /\ UNCHANGED runResult
         ELSE ReturnErr /\ UNCHANGED stream
    /\ UNCHANGED <<allOk, obj, opts, rt, cb, blocks, trace, ptrs, module, tearing>>
    /\ UNCHANGED apVars
    /\ UNCHANGED cbs

RtSetProcessingOn ==
    /\ pc = "procOn"
    /\ \E tr \in PluginTr :
         LET out == ProcessorRuntime_set_processing(rt, TRUE, tr)
         IN /\ rt' = out.rt
            /\ trace' = trace \o out.calls
            /\ IF out.result = "ok"
               THEN pc' = "play" /\ UNCHANGED runResult
               ELSE ReturnErr
    /\ UNCHANGED <<allOk, obj, opts, stream, cb, blocks, ptrs, module, tearing>>
    /\ UNCHANGED apVars
    /\ UNCHANGED cbs

RtPlay ==
    /\ pc = "play"
    /\ \E ok \in BOOLEAN :
         IF ok
         THEN stream' = "playing" /\ pc' = "wait" /\ UNCHANGED runResult
         ELSE ReturnErr /\ UNCHANGED stream
    /\ UNCHANGED <<allOk, obj, opts, rt, cb, blocks, trace, ptrs, module, tearing>>
    /\ UNCHANGED apVars
    /\ UNCHANGED cbs

\* stdin().read_line returns: the user pressed Enter.
RtReadLine ==
    /\ pc = "wait"
    /\ pc' = "procOff"
    /\ tearing' = TRUE
    /\ UNCHANGED <<allOk, obj, opts, rt, stream, cb, blocks, trace, runResult, ptrs, module>>
    /\ UNCHANGED apVars
    /\ UNCHANGED cbs

RtSetProcessingOff ==
    /\ pc = "procOff"
    /\ \E tr \in PluginTr :
         LET out == ProcessorRuntime_set_processing(rt, FALSE, tr)
             go == AfterTeardownCall(out.result, "term")
         IN /\ rt' = out.rt
            /\ trace' = trace \o out.calls
            /\ pc' = go.pc
            /\ runResult' = go.runResult
    /\ UNCHANGED <<allOk, obj, opts, stream, cb, blocks, ptrs, module, tearing>>
    /\ UNCHANGED apVars
    /\ UNCHANGED cbs

RtTerminate ==
    /\ pc = "term"
    /\ \E tr \in (IF rt.initialized THEN PluginTr ELSE {K_RESULT_OK}) :
         LET out == ProcessorRuntime_terminate(rt, tr)
             go == AfterTeardownCall(out.result, "dropStream")
         IN /\ rt' = out.rt
            /\ trace' = trace \o out.calls
            /\ pc' = go.pc
            /\ runResult' = go.runResult
    /\ UNCHANGED <<allOk, obj, opts, stream, cb, blocks, ptrs, module, tearing>>
    /\ UNCHANGED apVars
    /\ UNCHANGED cbs

\* drop(stream), then Ok(()): the stream is closed once the callback in flight
\* has returned.
RtDropStream ==
    /\ pc = "dropStream"
    /\ cb = "idle"
    /\ stream' = "dropped"
    /\ pc' = "unwind"
    /\ runResult' = "ok"
    /\ UNCHANGED <<allOk, obj, opts, rt, cb, blocks, trace, ptrs, module, tearing>>
    /\ UNCHANGED apVars
    /\ UNCHANGED cbs

\* Leaving run(): locals are dropped in reverse declaration order, the stream
\* first, then the ProcessorRuntime, then the Module.
RtUnwindStream ==
    /\ pc = "unwind"
    /\ stream \in {"built", "playing"}
    /\ cb = "idle"
    /\ stream' = "dropped"
    /\ UNCHANGED <<allOk, obj, opts, pc, rt, cb, blocks, trace, runResult, ptrs, module, tearing>>
    /\ UNCHANGED apVars
    /\ UNCHANGED cbs

RtUnwindRuntime ==
    /\ pc = "unwind"
    /\ stream \notin {"built", "playing"}
    /\ rt.st = "live"
    /\ \E trProc \in (IF rt.processing THEN PluginTr ELSE {K_RESULT_OK}),
          trTerm \in (IF rt.initialized THEN PluginTr ELSE {K_RESULT_OK}),
          o \in ReleaseOutcomes(obj) :
         LET out == ProcessorRuntime_drop(rt, trProc, trTerm)
         IN /\ rt' = out.rt
            /\ trace' = trace \o out.calls
            /\ obj' = o
    /\ ptrs' = [ptrs EXCEPT !.created = "released"]
    /\ UNCHANGED <<allOk, opts, pc, stream, cb, blocks, runResult, module, tearing>>
    /\ UNCHANGED apVars
    /\ UNCHANGED cbs

RtUnwindModule ==
    /\ pc = "unwind"
    /\ stream \notin {"built", "playing"}
    /\ rt.st # "live"
    /\ module' = "unloaded"
    /\ pc' = "exit"
    /\ UNCHANGED <<allOk, obj, opts, rt, stream, cb, blocks, trace, runResult, ptrs, tearing>>
    /\ UNCHANGED apVars
    /\ UNCHANGED cbs

(***************************************************************************)
(* The audio callback thread                                               *)
(***************************************************************************)
\* The device delivers a block: CallbackState32::process up to the dispatch of
\* the plugin's process.
CallbackBegin ==
    /\ stream = "playing"
    /\ cb = "idle"
    /\ blocks < MaxBlocks
    /\ \E frames \in BlockFrames :
         LET out == CallbackState32_process(DeviceChannels, MaxFrames, frames)
         IN /\ trace' = trace \o out.calls
            /\ cb' = IF out.calls = <<>> THEN "idle" ELSE "inflight"
    /\ blocks' = blocks + 1
    /\ UNCHANGED <<allOk, obj, opts, pc, rt, stream, runResult, ptrs, module, tearing>>
    /\ UNCHANGED apVars
    /\ UNCHANGED cbs

\* The plugin's process returns; an error is printed by the callback.
CallbackEnd ==
    /\ cb = "inflight"
    /\ \E tr \in PluginTr :
         trace' = Append(trace, Call("process.ret", 0, 0, 0, tr))
    /\ cb' = "idle"
    /\ UNCHANGED <<allOk, obj, opts, pc, rt, stream, blocks, runResult, ptrs, module, tearing>>
    /\ UNCHANGED apVars
    /\ UNCHANGED cbs

NextRT ==
    \/ RtCreate \/ RtQueryComponent \/ RtEnvironment \/ RtInitialize
    \/ RtSetBusArrangements \/ RtSetupProcessing \/ RtBuildStream
    \/ RtSetProcessingOn \/ RtPlay \/ RtReadLine \/ RtSetProcessingOff
    \/ RtTerminate \/ RtDropStream \/ RtUnwindStream \/ RtUnwindRuntime
    \/ RtUnwindModule \/ CallbackBegin \/ CallbackEnd

SpecRT == InitRT /\ [][NextRT]_vars

(***************************************************************************)
(* SpecCB: the stream callback of realtime-host-cli, block after block     *)
(***************************************************************************)
\* Channel counts the opened device may have.
CbChannels == 1..(DeviceChannels + 1)

\* The ProcessData32 of a block that never reached the plugin.
NoData == [num_inputs |-> -1, num_outputs |-> -1, num_samples |-> -1,
           outputs |-> [num_channels |-> -1, silence_flags |-> 0]]

\* CallbackState32::new: `channels` buffers of max_frames zeros, one bus.
CallbackState32_new(channels, max_frames) ==
    [st |-> "ready",
     channels |-> channels,
     max_frames |-> max_frames,
     channel_data |-> [ch \in 1..channels |-> [f \in 1..max_frames |-> 0]],
     outs_bus |-> [num_channels |-> channels, silence_flags |-> 0],
     data |-> NoData,
     seen |-> <<>>]

\* The interleaved buffer the device hands to the callback: its contents are
\* whatever the device left there (-1: not written by this program).
DeviceBuffer(channels, frames) == [i \in 1..(frames * channels) |-> -1]

\* The bus descriptor as refreshed at the start of every block.
OutsBus(s) == [num_channels |-> s.channels, silence_flags |-> 0]

ProcessData32_new_MaxFrames(s, frames) ==
    [num_inputs |-> 0, num_outputs |-> 1, num_samples |-> s.max_frames,
     outputs |-> OutsBus(s)]

\* The ProcessData32 built on the stack for a block of `frames` frames.
ProcessData32_new(s, frames) ==
    [num_inputs |-> 0, num_outputs |-> 1, num_samples |-> frames,
     outputs |-> OutsBus(s)]

\* What the plugin may do to the channel buffers during process_32f: leave
\* them alone, fill the first channel only, or fill every channel, over the
\* first num_samples samples.
PluginSamples == {1, 2}
PluginWrites == {"none", "first", "all"}

process_32f(channel_data, data, write, sample) ==
    [ch \in 1..Len(channel_data) |->
        [f \in 1..Len(channel_data[ch]) |->
            IF f <= data.num_samples /\ (write = "all" \/ (write = "first" /\ ch = 1))
            THEN sample
            ELSE channel_data[ch][f]]]

\* The copy loop: frame-major interleaving of the channel buffers.
Interleave(buffer, channel_data, channels, frames) ==
    [i \in 1..Len(buffer) |->
        IF i <= frames * channels
        THEN channel_data[((i - 1) % channels) + 1][((i - 1) \div channels) + 1]
        ELSE buffer[i]]

CallbackState32_process_block_CopyBeforeCheck(s, buffer, tr, write, sample) ==
    LET frames == Len(buffer) \div s.channels
        pre == CallbackState32_process(s.channels, s.max_frames, frames)
        data == ProcessData32_new(s, frames)
        after == process_32f(s.channel_data, data, write, sample)
    IN IF pre.result = "err"
       THEN [state |-> s, result |-> "err", calls |-> <<>>, buffer |-> buffer]
       ELSE [state |-> [s EXCEPT !.channel_data = after, !.outs_bus = OutsBus(s),
                                 !.data = data, !.seen = s.channel_data],
             result |-> IF tr # K_RESULT_OK THEN "err" ELSE "ok",
             calls |-> <<[pre.calls[1] EXCEPT !.rc = tr]>>,
             buffer |-> Interleave(buffer, after, s.channels, frames)]

\* CallbackState32::process, whole: the size check, the descriptors, the one
\* process_32f call, then the copy into the device buffer unless it failed.
\* state.seen records the channel buffers as the plugin found them.
CallbackState32_process_block(s, buffer, tr, write, sample) ==
    LET frames == Len(buffer) \div s.channels
        pre == CallbackState32_process(s.channels, s.max_frames, frames)
        data == ProcessData32_new(s, frames)
        after == process_32f(s.channel_data, data, write, sample)
    IN IF pre.result = "err"
       THEN [state |-> s, result |-> "err", calls |-> <<>>, buffer |-> buffer]
       ELSE [state |-> [s EXCEPT !.channel_data = after, !.outs_bus = OutsBus(s),
                                 !.data = data, !.seen = s.channel_data],
             result |-> IF tr # K_RESULT_OK THEN "err" ELSE "ok",
             calls |-> <<[pre.calls[1] EXCEPT !.rc = tr]>>,
             buffer |-> IF tr # K_RESULT_OK
                        THEN buffer
                        ELSE Interleave(buffer, after, s.channels, frames)]

InitCB ==
    /\ allOk \in BOOLEAN
    /\ buses = [ins |-> <<>>, outs |-> <<>>]
    /\ obj = NewObj
    /\ ap = NoAp
    /\ opName = "none"
    /\ opResult = "ok"
    /\ opCalls = <<>>
    /\ lastSetActive = "none"
    /\ drive = 0
    /\ driveOk = TRUE
    /\ nOps = 0
    /\ opArgs = <<>>
    /\ opOut = <<>>
    /\ plugInits = 0
    /\ opts = [component_iid |-> FALSE, arrs |-> FALSE]
    /\ pc = "play"
    /\ rt = [st |-> "live", initialized |-> TRUE, processing |-> TRUE]
    /\ stream = "playing"
    /\ cb = "idle"
    /\ blocks = 0
    /\ trace = <<>>
    /\ runResult = "running"
    /\ ptrs = [created |-> "held", comp |-> "none"]
    /\ tearing = FALSE
    /\ module = "loaded"
    /\ \E channels \in CbChannels : cbs = CallbackState32_new(channels, MaxFrames)

\* The device delivers one block; the closure runs state.process(data) and
\* prints an error.
CbBlock ==
    /\ stream = "playing"
    /\ blocks < MaxBlocks
    /\ \E frames \in BlockFrames :
       \E tr \in (IF frames <= cbs.max_frames THEN PluginTr ELSE {K_RESULT_OK}),
          write \in (IF frames <= cbs.max_frames THEN PluginWrites ELSE {"none"}) :
       \E sample \in (IF write = "none" THEN {1} ELSE PluginSamples) :
         LET out == CallbackState32_process_block(
                        cbs, DeviceBuffer(cbs.channels, frames), tr, write, sample)
         IN /\ cbs' = out.state
            /\ opResult' = out.result
            /\ opCalls' = out.calls
            /\ opOut' = out.buffer
            /\ opArgs' = <<frames>>
            /\ trace' = trace \o out.calls
    /\ opName' = "block"
    /\ blocks' = blocks + 1
    /\ UNCHANGED <<allOk, obj, buses, ap, lastSetActive, drive, driveOk, nOps, plugInits>>
    /\ UNCHANGED <<opts, pc, rt, stream, cb, runResult, ptrs, tearing, module>>

NextCB == CbBlock

SpecCB == InitCB /\ [][NextCB]_vars

(***************************************************************************)
(* Properties                                                              *)
(***************************************************************************)
IsCall(e, c, x) == e.c = c /\ e.x = x

\* Some call named c with first argument x was delivered with status OK before
\* position i of the trace.
OkBefore(c, x, i) ==
    \E j \in 1..(i - 1) : IsCall(trace[j], c, x) /\ trace[j].rc = K_RESULT_OK

\* The two setActive entries: IComponent's and IAudioProcessor's.
SetActiveCalls == {"comp.setActive", "proc.setActive"}

\* The positions of the busCount calls of the last operation, in call order.
BusCountAt == { i \in 1..Len(opCalls) : opCalls[i].c = "busCount" }

\* setup reached activate_default_audio_buses and the plugin reported its input
\* buses: the third busCount call of setup (the first two are those of
\* get_bus_arrangements) was delivered and succeeded.
ActivationStarted ==
    \E i \in BusCountAt :
        /\ Cardinality({ j \in BusCountAt : j < i }) = 2
        /\ opCalls[i].rc >= 0

\* ... and its output buses: the fourth busCount call.
OutputsReported ==
    \E i \in BusCountAt :
        /\ Cardinality({ j \in BusCountAt : j < i }) = 3
        /\ opCalls[i].rc >= 0

\* The activate calls the last operation delivered: direction, index, enabled.
ActivateCalls ==
    LET sel == SelectSeq(opCalls, LAMBDA e : e.c = "activateBus")
    IN [i \in 1..Len(sel) |-> <<sel[i].x, sel[i].y, sel[i].z>>]

\* The activate calls the policy prescribes for one direction.
ExpectedActivation(dir, chans, budget) ==
    [i \in 1..Len(chans) |->
        <<dir, i - 1, IF budget # 0 /\ chans[i] # 0 THEN 1 ELSE 0>>]

IsTeardownCall(e) == IsCall(e, "setProcessing", 0) \/ e.c = "terminate"

\* A step of the activation sequence of run() failed.
ActivationFailed ==
    \E i \in 1..Len(trace) :
        /\ trace[i].rc # K_RESULT_OK
        /\ \/ trace[i].c \in {"initialize", "setupProcessing", "setBusArrangements"}
           \/ IsCall(trace[i], "setProcessing", 1)

\* C1: a capability object is not destroyed while references to it are held, it
\* is destroyed exactly once, when the count reaches zero, and no call is
\* dispatched through its pointer after that.
C1_RefCountContract ==
    /\ (obj.refs > 0 => obj.st # "destroyed")
    /\ (obj.st = "destroyed" => obj.destroys = 1)
    /\ ~obj.uaf

\* C2: the releases issued by the drop of an AudioProcessor match the references
\* the host holds on the instance: after the drop none is left (count zero) and
\* none was released twice (no release went to the destroyed object).
C2_DropReleasesBalanced ==
    ap.st = "dropped" => (obj.refs = 0 /\ ~obj.uaf)

\* C3: against a plugin whose every call succeeds, the full drive create,
\* initialize, setup, set_active(true), process, set_active(false), drop returns
\* success at every step and leaves the reference count at exactly zero.
C3_FullDriveLeavesZero ==
    (allOk /\ drive = 7) => (driveOk /\ obj.refs = 0 /\ ~obj.uaf)

\* C4: when the module is unloaded, every capability pointer obtained from
\* create_instance_raw or query_interface has been released.
C4_PointersReleased ==
    module = "unloaded" =>
        (ptrs.created \in {"none", "released"} /\ ptrs.comp \in {"none", "released"})

\* C5: process_f32 calls the plugin only if the most recent successful
\* set_active was set_active(true); on a fresh processor or after a successful
\* set_active(false) it returns an error without calling the plugin.
C5_ProcessOnlyWhenActive ==
    opName = "process_f32" =>
        /\ (opCalls # <<>> => lastSetActive = "on")
        /\ (lastSetActive # "on" => (opResult = "err" /\ opCalls = <<>>))

C5_Witness ==
    opName = "process_f32" /\ lastSetActive = "off" /\ opResult = "err"

\* C6: when the plugin's process returns a non-success status, process_f32
\* returns an error and the active flag stays true.
C6_ProcessFailureKeepsState ==
    (opName = "process_f32" /\ opCalls # <<>> /\ opCalls[1].rc # 0) =>
        (opResult = "err" /\ ap.active)

C6_Witness ==
    opName = "process_f32" /\ opCalls # <<>> /\ opCalls[1].rc # 0

\* C7: no lifecycle call is made while a process call of the audio callback is
\* in flight (the event after a process dispatch is its return), and
\* initialize, setup_processing and set_processing(true) have succeeded before
\* the first process call.
C7_NoLifecycleDuringProcess ==
    /\ \A i \in 1..(Len(trace) - 1) :
           trace[i].c = "process" => trace[i + 1].c = "process.ret"
    /\ \A i \in 1..Len(trace) :
           trace[i].c = "process" =>
               /\ OkBefore("initialize", 0, i)
               /\ OkBefore("setupProcessing", MaxFrames, i)
               /\ OkBefore("setProcessing", 1, i)

\* C8: once set_processing(false) or terminate has been issued, the audio
\* callback issues no further process call.
C8_NoProcessAfterTeardown ==
    \A i \in 1..Len(trace) : \A j \in (i + 1)..Len(trace) :
        IsTeardownCall(trace[i]) => trace[j].c # "process"

\* C9: if a step of the activation sequence fails, the teardown calls are still
\* all issued when the instance is dropped, in the order disable processing,
\* terminate, release (ProcessorRuntime has no deactivate call of its own).
C9_TeardownAfterFailedActivation ==
    (pc = "exit" /\ rt.st = "dropped" /\ ActivationFailed) =>
        \E i \in 1..Len(trace) : \E j \in (i + 1)..Len(trace) :
        \E k \in (j + 1)..Len(trace) :
            /\ IsCall(trace[i], "setProcessing", 0)
            /\ trace[j].c = "terminate"
            /\ trace[k].c = "release"

C11_SetProcessingOnlyWhenActive ==
    \A i \in 1..Len(trace) :
        IsCall(trace[i], "setProcessing", 1) =>
            \E j \in 1..(i - 1) :
                /\ trace[j].c \in SetActiveCalls
                /\ trace[j].x = 1
                /\ trace[j].rc = K_RESULT_OK
                /\ \A k \in (j + 1)..(i - 1) :
                       ~(trace[k].c \in SetActiveCalls /\ trace[k].x = 0)

\* C12: AudioProcessor::setup delivers no setActive(true) to the component:
\* activation comes only after setupProcessing and the default bus activation.
C12_NoSetActiveDuringSetup ==
    opName = "setup" =>
        \A i \in 1..Len(opCalls) : ~IsCall(opCalls[i], "comp.setActive", 1)

\* C13: terminate is delivered only to an instance that is not active: if a
\* setActive(true) or setProcessing(true) was issued before it, a
\* setProcessing(false) and a setActive(false) were issued in between.
C13_TerminateOnlyWhenInactive ==
    \A i \in 1..Len(trace) : \A j \in 1..(i - 1) :
        (/\ trace[i].c = "terminate"
         /\ trace[j].x = 1
         /\ trace[j].c \in SetActiveCalls \cup {"setProcessing"}) =>
            /\ \E k \in (j + 1)..(i - 1) : IsCall(trace[k], "setProcessing", 0)
            /\ \E k \in (j + 1)..(i - 1) :
                   trace[k].c \in SetActiveCalls /\ trace[k].x = 0

\* C14: once ProcessorRuntime::initialize has succeeded, a further initialize
\* call returns success without invoking the plugin; the plugin's initialize is
\* invoked again only after a terminate of the plugin succeeded in between.
C14_InitializeIdempotent ==
    /\ (opName = "initialize" /\ opCalls = <<>>) => opResult = "ok"
    /\ \A i \in 1..Len(trace) : \A j \in (i + 1)..Len(trace) :
           (/\ trace[i].c = "initialize"
            /\ trace[i].rc = K_RESULT_OK
            /\ trace[j].c = "initialize") =>
               \E k \in (i + 1)..(j - 1) :
                   trace[k].c = "terminate" /\ trace[k].rc = K_RESULT_OK

C14_Witness ==
    /\ opName = "initialize"
    /\ opCalls = <<>>
    /\ rt.initialized
    /\ \E i \in 1..Len(trace) : trace[i].c = "initialize" /\ trace[i].rc = K_RESULT_OK

\* C15: however many times AudioProcessor::initialize is called, the plugin's
\* initialize is invoked at most once between creation and terminate.
C15_InitializeAtMostOnce ==
    ap.st = "live" => plugInits <= 1

\* C16: no plugin call of an AudioProcessor, the calls of its drop included, is
\* made after the library was unmapped, in whatever order the caller drops the
\* LoadedFactory and the AudioProcessor.
C16_LibraryOutlivesCalls ==
    module = "unloaded" => opCalls = <<>>

\* C17: dropping a loaded module issues no call on the factory capability
\* object, no release either: it unmaps the library and nothing else.
C17_FactoryDropIssuesNoCall ==
    opName = "drop_factory" => (opCalls = <<>> /\ module = "unloaded")

C17_Witness ==
    opName = "drop_factory" /\ ap.st = "live" /\ obj.refs = 1

\* C20: for a factory reporting n >= 0 classes the listing succeeds, asks for
\* every index of 0..n-1 in ascending order, and returns exactly the indices
\* whose class-info call succeeded, in ascending order.
C20_BestEffortListing ==
    (opName = "classes" /\ opCalls[1].rc >= 0) =>
        LET n == opCalls[1].rc
        IN /\ opResult = "ok"
           /\ Len(opCalls) = n + 1
           /\ \A i \in 0..(n - 1) : IsCall(opCalls[i + 2], "classInfo", i)
           /\ { opOut[k].index : k \in 1..Len(opOut) }
                  = { i \in 0..(n - 1) : opCalls[i + 2].rc = 0 }
           /\ \A a \in 1..Len(opOut) : \A b \in (a + 1)..Len(opOut) :
                  opOut[a].index < opOut[b].index

C20_Witness ==
    /\ opName = "classes"
    /\ Len(opOut) >= 1
    /\ \E i \in 2..Len(opCalls) : \E j \in (i + 1)..Len(opCalls) :
           opCalls[i].rc # 0 /\ opCalls[j].rc = 0

\* C18: once the bus counts are known, the default activation visits every
\* reported audio bus of each direction in ascending index order and calls
\* activate with enabled = true exactly when the host budget of the direction
\* and the channel count of the bus are both non-zero, enabled = false otherwise.
C18_DefaultActivationPolicy ==
    (opName = "setup" /\ ActivationStarted) =>
        ActivateCalls = ExpectedActivation(BUS_DIRECTION_INPUT, buses.ins, opArgs[1])
                        \o (IF OutputsReported
                            THEN ExpectedActivation(BUS_DIRECTION_OUTPUT, buses.outs, opArgs[2])
                            ELSE <<>>)

\* C19: a failing bus activation is not escalated: setup still succeeds and
\* every bus of both directions is still visited.
C19_BusActivationFailureNonFatal ==
    (opName = "setup"
     /\ \E i \in 1..Len(opCalls) : opCalls[i].c = "activateBus" /\ opCalls[i].rc # 0) =>
        /\ opResult = "ok"
        /\ Len(ActivateCalls) = Len(buses.ins) + Len(buses.outs)

\* C21: a negative class count is surfaced as an error, never as an empty
\* listing; a count of zero yields a successful empty listing.
C21_NegativeCountIsError ==
    opName = "classes" =>
        /\ (opCalls[1].rc < 0 => opResult = "err")
        /\ (opCalls[1].rc = 0 => (opResult = "ok" /\ opOut = <<>>))

C21_Witness ==
    opName = "classes" /\ opCalls[1].rc < 0 /\ opResult = "err" /\ Len(opCalls) = 1

\* C23: a failed create leaves nothing to tear down: it returns an error,
\* constructs no AudioProcessor, and no reference is left on the object the
\* factory may have created.
C23_FailedCreateLeavesNothing ==
    /\ (opName = "create" /\ opCalls[1].rc # K_RESULT_OK) => opResult = "err"
    /\ (opName = "create" /\ opResult = "err") =>
            (ap = NoAp /\ obj.refs = 0 /\ obj.st # "live" /\ ~obj.uaf)

C23_Witness ==
    opName = "create" /\ opResult = "err" /\ obj.st = "destroyed"

\* C24: loading fails and yields no module when the library cannot be opened,
\* when the entry symbol is absent or when the entry point returns null; the
\* only call ever made is the entry point itself, none on the factory pointer.
C24_LoadFailures ==
    opName = "load" =>
        /\ (opArgs # <<TRUE, TRUE, TRUE>> => (opResult = "err" /\ module = "none"))
        /\ ((~opArgs[1] \/ ~opArgs[2]) => opCalls = <<>>)
        /\ \A i \in 1..Len(opCalls) : opCalls[i].c = "GetPluginFactory"

C24_Witness ==
    opName = "load" /\ opArgs = <<TRUE, TRUE, FALSE>> /\ opResult = "err" /\ opCalls # <<>>

\* C22: no non-success status of a dispatch call made on the activation path
\* (initialize, setupProcessing, setActive, setProcessing, bus queries, bus
\* activation, arrangement get/set, process) is coerced to success: an
\* operation in which such a call failed reports an error.
CallFailed(call) ==
    IF call.c = "busCount" THEN call.rc < 0 ELSE call.rc # 0

ActivationOps ==
    {"initialize", "setup", "set_active(true)", "set_active(false)", "process_f32"}

C22_NoStatusCoercedToSuccess ==
    opName \in ActivationOps =>
        ((\E i \in 1..Len(opCalls) : CallFailed(opCalls[i])) => opResult = "err")

\* C28: a process call in steady state creates no new buffer or pointer array.
C28_ProcessAllocatesNothing ==
    (opName = "process_f32" /\ opCalls # <<>>) => opOut = <<>>

\* C30: every dispatch table begins with identity-query, add-reference and
\* release, in that order; the component and audio-processor tables go on with
\* initialize and terminate at positions 4 and 5.  Hence every base call the
\* runtime made through the audio-processor pointer (initialize, terminate,
\* and release through the FUnknown cast) landed on the slot of the base table.
DispatchTables ==
    {FUnknownVTable, IPluginFactoryVTable, IPluginBaseVTable,
     IComponentVTable, IAudioProcessorVTable}

C30_DispatchTablePrefix ==
    /\ \A t \in DispatchTables :
          Len(t) >= 3 /\ SubSeq(t, 1, 3) = <<"query_interface", "add_ref", "release">>
    /\ \A t \in {IComponentVTable, IAudioProcessorVTable} :
          Len(t) >= 5 /\ t[4] = "initialize" /\ t[5] = "terminate"
    /\ \A i \in 1..Len(trace) :
          /\ trace[i].c \in {"initialize", "terminate"} =>
                SlotOf(IAudioProcessorVTable, trace[i].c) = SlotOf(IPluginBaseVTable, trace[i].c)
          /\ trace[i].c = "release" =>
                SlotOf(IAudioProcessorVTable, "release") = SlotOf(FUnknownVTable, "release")

C30_Witness ==
    /\ rt.st = "dropped"
    /\ \E i \in 1..Len(trace) : trace[i].c = "initialize"
    /\ \E i \in 1..Len(trace) : trace[i].c = "terminate"
    /\ trace[Len(trace)].c = "release"

\* C25 as stated: each block delivered to the driver results in exactly one
\* plugin process call, with zero input buses and one output bus of the
\* configured channel count and the block's frame count.
OneCallFor(frames) ==
    /\ Len(opCalls) = 1
    /\ opCalls[1].c = "process"
    /\ cbs.data.num_inputs = 0
    /\ cbs.data.num_outputs = 1
    /\ cbs.data.outputs.num_channels = cbs.channels
    /\ cbs.data.num_samples = frames

C25_EveryBlockOneCall ==
    opName = "block" => OneCallFor(opArgs[1])

\* C25, amended: each block of at most max_frames frames results in exactly
\* one plugin process call, with zero input buses and one output bus of the
\* configured channel count and the block's frame count; a larger block
\* results in none.
C25_BlockWithinMaxOneCall ==
    opName = "block" =>
        IF opArgs[1] <= cbs.max_frames
        THEN OneCallFor(opArgs[1])
        ELSE opCalls = <<>> /\ opResult = "err"

C25_Witness ==
    /\ opName = "block"
    /\ blocks = 2
    /\ opArgs[1] = 1
    /\ cbs.max_frames > 1
    /\ cbs.channels = DeviceChannels
    /\ OneCallFor(1)

\* C26: before every process call the driver zero-fills the output channel
\* buffers: what the plugin sees at the start of a block is all zero.
C26_BuffersZeroedBeforeCall ==
    (opName = "block" /\ opCalls # <<>>) =>
        \A ch \in 1..Len(cbs.seen) : \A f \in 1..Len(cbs.seen[ch]) : cbs.seen[ch][f] = 0

\* C27: a non-success status from the plugin's process call fails the block,
\* and nothing of the channel buffers is copied into the device buffer.
C27_FailedBlockCopiesNothing ==
    (opName = "block" /\ opCalls # <<>> /\ opCalls[1].rc # K_RESULT_OK) =>
        /\ opResult = "err"
        /\ opOut = DeviceBuffer(cbs.channels, opArgs[1])

C27_Witness ==
    /\ opName = "block"
    /\ opCalls # <<>>
    /\ opCalls[1].rc # K_RESULT_OK
    /\ opResult = "err"
    /\ \E ch \in 1..cbs.channels : cbs.channel_data[ch][1] # 0 /\ cbs.seen[ch][1] = 0

\* C29: the silence-flag value of the output bus of a block with n channels
\* is bits 0..n-1 set for n < 64 (n = 3: bits 0-2, n = 0: 0) and 0, "no
\* channel flagged silent", for n >= 64.
RECURSIVE LowBits(_)
LowBits(n) == IF n = 0 THEN 0 ELSE 2 * LowBits(n - 1) + 1

C29_SilenceFlags ==
    (opName = "block" /\ opCalls # <<>>) =>
        cbs.data.outputs.silence_flags
            = (IF cbs.channels >= 64 THEN 0 ELSE LowBits(cbs.channels))

\* C31: an empty arrangement list is a no-op and not an error: with no audio
\* bus on either side the re-applied default arrangements issue no
\* setBusArrangements call and succeed, and setup never fails unless one of
\* its plugin calls failed, an empty list on one side included.
C31_EmptyArrangementsNoOp ==
    opName = "setup" =>
        /\ (buses.ins = <<>> /\ buses.outs = <<>>) =>
              \A i \in 1..Len(opCalls) : opCalls[i].c # "setBusArrangements"
        /\ opResult = "err" => \E i \in 1..Len(opCalls) : CallFailed(opCalls[i])
        /\ \A i \in 1..Len(opCalls) :
              (opCalls[i].c = "getBusArrangements" /\ ~CallFailed(opCalls[i])
               /\ (buses.ins # <<>> \/ buses.outs # <<>>)) =>
                  /\ Len(opCalls) > i
                  /\ opCalls[i + 1].c = "setBusArrangements"
                  /\ opCalls[i + 1].x = Len(buses.ins)
                  /\ opCalls[i + 1].y = Len(buses.outs)

C31_Witness ==
    /\ opName = "setup"
    /\ buses.ins = <<>>
    /\ buses.outs = <<>>
    /\ opResult = "ok"
    /\ \E i \in 1..Len(opCalls) : opCalls[i].c = "getBusArrangements"

\* C32: activation issues component setActive(1), processor setActive(1),
\* setProcessing(1) in this order, deactivation the same calls with 0 in the
\* reverse order, and a successful set_active(false) leaves the driver
\* inactive (Configured).
CallSig(calls) == [i \in 1..Len(calls) |-> <<calls[i].c, calls[i].x>>]

C32_DeactivationReversesActivation ==
    /\ opName = "set_active(true)" =>
          CallSig(opCalls) = << <<"comp.setActive", 1>>, <<"proc.setActive", 1>>,
                                <<"setProcessing", 1>> >>
    /\ opName = "set_active(false)" =>
          CallSig(opCalls) = << <<"setProcessing", 0>>, <<"proc.setActive", 0>>,
                                <<"comp.setActive", 0>> >>
    /\ (opName = "set_active(false)" /\ opResult = "ok") => ~ap.active

C32_Witness ==
    opName = "set_active(false)" /\ drive = 6 /\ driveOk /\ ~ap.active

\* C33: active = true implies that no setProcessing(0) or setActive(0) reached
\* the plugin with success since the activation: a set_active(false) that
\* delivered a deactivation call successfully does not leave active = true.
C33_ActiveMeansPluginActive ==
    (ap.st = "live" /\ opName = "set_active(false)"
     /\ \E i \in 1..Len(opCalls) : opCalls[i].rc = 0) => ~ap.active

\* C34: terminate is delivered only to an instance whose initialize call
\* succeeded earlier; in particular a processor on which initialize was never
\* called receives no terminate when it is dropped.
C34_TerminateOnlyAfterInitialize ==
    (opName = "drop" /\ \E i \in 1..Len(opCalls) : opCalls[i].c = "terminate") =>
        plugInits >= 1

\* C37: a process call delivered to the plugin carries a sample count that
\* does not exceed the maximum block size of the preceding setupProcessing
\* (here: create, initialize, setup(MaxFrames), set_active(true), all
\* successful, then process_f32).
C37_ProcessWithinMaxBlock ==
    (opName = "process_f32" /\ drive = 5 /\ driveOk /\ opCalls # <<>>) =>
        opCalls[1].z <= MaxFrames

\* C38: process_f32 validates its buffers before touching the plugin: with an
\* input or output slice shorter than nframes it returns an error, calls
\* nothing and keeps the active flag; a call it does make passes the numbers
\* of input and output slices supplied.
C38_ProcessValidatesBuffers ==
    opName = "process_f32" =>
        /\ (AnyShort(opArgs[1], opArgs[3]) \/ AnyShort(opArgs[2], opArgs[3])) =>
              (opResult = "err" /\ opCalls = <<>>)
        /\ ap.active = opArgs[4]
        /\ opCalls # <<>> =>
              (/\ Len(opCalls) = 1
               /\ opCalls[1].x = Len(opArgs[1])
               /\ opCalls[1].y = Len(opArgs[2])
               /\ opCalls[1].z = opArgs[3])

C38_Witness ==
    /\ opName = "process_f32"
    /\ opArgs[4]
    /\ ~AnyShort(opArgs[1], opArgs[3])
    /\ AnyShort(opArgs[2], opArgs[3])
    /\ opResult = "err"
    /\ opCalls = <<>>

\* C35: during one shutdown of a ProcessorRuntime each teardown call reaches
\* the plugin at most once: Drop does not issue setProcessing(false) or
\* terminate again after the explicit calls of run(), whether they succeeded
\* or failed.
C35_TeardownCallsAtMostOnce ==
    /\ Cardinality({i \in 1..Len(trace) : IsCall(trace[i], "setProcessing", 0)}) <= 1
    /\ Cardinality({i \in 1..Len(trace) : trace[i].c = "terminate"}) <= 1

\* C36: in every reachable state of a ProcessorRuntime, processing = true
\* implies initialized = true.
C36_ProcessingImpliesInitialized ==
    (rt.st = "live" /\ rt.processing) => rt.initialized

====
